---- MODULE Spec2Model ----
(***************************************************************************)
(* The MongoDB tool server (mcp_server.py) and its two agent clients       *)
(* (mcp_client.py: structured-chat AgentExecutor, mcp_client2.py: react    *)
(* agent).  One client run against one server process.                     *)
(*                                                                         *)
(* A Python str is a sequence of one-character strings; None is the        *)
(* one-element sequence <<"None">>, which no str equals.  A message text   *)
(* is a sequence of string pieces (a literal piece, then the characters of *)
(* an interpolated value).                                                 *)
(*                                                                         *)
(* What the sources leave to their libraries is modelled at the call that  *)
(* uses it:                                                                *)
(*  - FastMCP runs the lifespan around the serving of requests, calls the  *)
(*    synchronous tool function on its event loop (one call at a time),    *)
(*    and answers a call that raised with a failure response;              *)
(*  - AgentExecutor.ainvoke plans one action per iteration, awaits its     *)
(*    tool call, counts the iteration, and at max_iterations returns the   *)
(*    stopped response; a failure response of the tool is a ToolException  *)
(*    that leaves ainvoke;                                                 *)
(*  - the react graph alternates the agent node and the tools node, one    *)
(*    superstep each; the tools node sends all tool calls of one model     *)
(*    response together and turns a failure response into an error         *)
(*    observation; with fewer than two remaining steps a model response    *)
(*    that still asks for tools ends the graph with "need more steps";     *)
(*  - datetime.fromisoformat, for YYYY-MM-DD[*HH[:MM[:SS]]].  The texts of *)
(*    its ValueErrors are CPython's and differ between versions.           *)
(***************************************************************************)
EXTENDS Integers, Sequences, FiniteSets, TLC

\* ---------------------------------------------------------------- bounds
\* Longest caller pipeline the model's agent sends.
MaxStages == 2
\* Most documents one aggregation returns.
MaxDocs == 1
\* Most tool calls one react model response asks for.
MaxParallel == 2

\* ------------------------------------------------------ program constants
\* AgentExecutor(max_iterations=5)
max_iterations == 5
\* agent.ainvoke(...) is given no "recursion_limit": the graph's default.
recursion_limit == 25

\* ------------------------------------------------------------- str values
None == <<"None">>

Digits == <<"0", "1", "2", "3", "4", "5", "6", "7", "8", "9">>

IsDigit(c) == \E i \in 1..10 : Digits[i] = c

DigitVal(c) == (CHOOSE i \in 1..10 : Digits[i] = c) - 1

\* int(s[a:b]) of a slice of digits, 1-based inclusive positions
RECURSIVE Num(_, _, _)
Num(s, a, b) == IF b < a THEN 0 ELSE Num(s, a, b - 1) * 10 + DigitVal(s[b])

AllDigits(s, a, b) == \A i \in a..b : IsDigit(s[i])

\* "2025-04-19T00:00:00", the docstring's example
S_19T == <<"2", "0", "2", "5", "-", "0", "4", "-", "1", "9", "T",
           "0", "0", ":", "0", "0", ":", "0", "0">>
\* "2025-04-20"
S_20 == <<"2", "0", "2", "5", "-", "0", "4", "-", "2", "0">>
\* "19/04/2025": not ISO-8601
S_slash == <<"1", "9", "/", "0", "4", "/", "2", "0", "2", "5">>
\* "2025-13-01": ISO-shaped, month out of range
S_month13 == <<"2", "0", "2", "5", "-", "1", "3", "-", "0", "1">>

\* The values the agent gives for start and for end.
OptStrings == {None, <<>>, S_19T, S_20, S_slash, S_month13}

\* ------------------------------------------------- datetime.fromisoformat
IsLeap(y) == (y % 4 = 0 /\ y % 100 # 0) \/ y % 400 = 0

DaysInMonth(y, m) ==
    IF m = 2 THEN (IF IsLeap(y) THEN 29 ELSE 28)
    ELSE IF m \in {4, 6, 9, 11} THEN 30 ELSE 31

ValueError(text) == [ok |-> FALSE, error |-> text]

\* str(ValueError(f"Invalid isoformat string: {s!r}"))
InvalidIsoformat(s) ==
    ValueError(<<"Invalid isoformat string: ", "'">> \o s \o <<"'">>)

\* The shape YYYY-MM-DD[*HH[:MM[:SS]]]
IsoShape(s) ==
    LET n == Len(s) IN
    /\ n \in {10, 13, 16, 19}
    /\ AllDigits(s, 1, 4) /\ s[5] = "-" /\ AllDigits(s, 6, 7)
    /\ s[8] = "-" /\ AllDigits(s, 9, 10)
    /\ n >= 13 => AllDigits(s, 12, 13)
    /\ n >= 16 => (s[14] = ":" /\ AllDigits(s, 15, 16))
    /\ n >= 19 => (s[17] = ":" /\ AllDigits(s, 18, 19))

\* datetime.fromisoformat(s) for a str s: the datetime, or the ValueError
fromisoformat(s) ==
    IF ~IsoShape(s) THEN InvalidIsoformat(s)
    ELSE LET n == Len(s)
             y == Num(s, 1, 4)
             mo == Num(s, 6, 7)
             d == Num(s, 9, 10)
             h == IF n >= 13 THEN Num(s, 12, 13) ELSE 0
             mi == IF n >= 16 THEN Num(s, 15, 16) ELSE 0
             sec == IF n >= 19 THEN Num(s, 18, 19) ELSE 0
         IN IF y < 1 THEN ValueError(<<"year 0 is out of range">>)
            ELSE IF mo \notin 1..12 THEN ValueError(<<"month must be in 1..12">>)
            ELSE IF d \notin 1..DaysInMonth(y, mo)
                 THEN ValueError(<<"day is out of range for month">>)
            ELSE IF h > 23 THEN ValueError(<<"hour must be in 0..23">>)
            ELSE IF mi > 59 THEN ValueError(<<"minute must be in 0..59">>)
            ELSE IF sec > 59 THEN ValueError(<<"second must be in 0..59">>)
            ELSE [ok |-> TRUE,
                  dt |-> [year |-> y, month |-> mo, day |-> d,
                          hour |-> h, minute |-> mi, second |-> sec]]

DtFields(dt) == <<dt.year, dt.month, dt.day, dt.hour, dt.minute, dt.second>>

\* a < b of two naive datetimes: lexicographic on (year, ..., second)
DtLess(a, b) ==
    \E i \in 1..6 :
        /\ DtFields(a)[i] < DtFields(b)[i]
        /\ \A j \in 1..(i - 1) : DtFields(a)[j] = DtFields(b)[j]

\* ---------------------------------------------------------------- stages
\* {"$match": {"date": {"$gte": start_dt, "$lt": end_dt}}}
DateMatch(start_dt, end_dt) ==
    [op |-> "$match", field |-> "date", gte |-> start_dt, lt |-> end_dt]

\* Caller stages: the docstring's $group, and a date $match of the caller's own.
GroupByCategory == [op |-> "$group", id |-> "$category", sum |-> "$amount"]

Stages ==
    {GroupByCategory, DateMatch(fromisoformat(S_19T).dt, fromisoformat(S_20).dt)}

SeqsUpTo(S, n) == UNION {[1..k -> S] : k \in 0..n}

Pipelines == SeqsUpTo(Stages, MaxStages)

\* ------------------------------------------------------------------ state
VARIABLES
    variant,         \* which client script runs: "structured" or "react"
    cpc,             \* the client's position
    iterations,      \* AgentExecutor's iteration counter
    steps,           \* the react graph's supersteps so far
    calls,           \* this model turn's tool calls: id -> where each is
    result,          \* what the client's top-level coroutine returns or raises
    exit_code,       \* the client process's exit status, -1 while it runs
    phase,           \* the server process: "init", "serving", "stopped"
    db,              \* the lifespan's MongoDB client: "none", "open", "closed"
    opens,           \* times a MongoDB client was constructed
    closes,          \* times db.client.close() was called
    exit_cause,      \* how the lifespan was left: "none", "normal", "exception"
    tpc,             \* the running query_db_aggregate call's position
    cur,             \* the id of the call it serves, 0 when none
    pipeline,        \* its arguments
    start,
    end,
    final_pipeline,  \* its local final_pipeline
    executed,        \* the pipelines it has passed to transactions.aggregate
    aggregated,      \* its local result: the materialized documents
    ret              \* what the call returned or raised

client_vars == <<variant, cpc, iterations, steps, result, exit_code>>

server_vars == <<phase, db, opens, closes, exit_cause>>

tool_vars == <<tpc, cur, pipeline, start, end, final_pipeline, executed, aggregated, ret>>

vars == <<client_vars, calls, server_vars, tool_vars>>

NoRet == [kind |-> "none", docs |-> <<>>, text |-> <<>>]

NoResult == [kind |-> "none"]

\* No query_db_aggregate frame on the server's stack.
ToolIdle ==
    /\ tpc = "idle" /\ cur = 0
    /\ pipeline = <<>> /\ start = None /\ end = None
    /\ final_pipeline = <<>> /\ executed = <<>> /\ aggregated = <<>>
    /\ ret = NoRet

ToolReset ==
    /\ tpc' = "idle" /\ cur' = 0
    /\ pipeline' = <<>> /\ start' = None /\ end' = None
    /\ final_pipeline' = <<>> /\ executed' = <<>> /\ aggregated' = <<>>
    /\ ret' = NoRet

Init ==
    /\ variant \in {"structured", "react"}
    /\ cpc = "start" /\ iterations = 0 /\ steps = 0
    /\ calls = <<>> /\ result = NoResult /\ exit_code = -1
    /\ phase = "init" /\ db = "none" /\ opens = 0 /\ closes = 0
    /\ exit_cause = "none"
    /\ ToolIdle

\* ------------------------------------------------- server: app_lifespan
\* db_utilities.mongo_implementation.MongoImplement(...): establishes the
\* client handle (the class is not among the sources; after the specification's
\* Database Access Adapter).
MongoImplement == db' = "open" /\ opens' = opens + 1

\* Entering the lifespan: MongoImplement(...) is constructed, then the yield.
Startup ==
    /\ cpc # "start"
    /\ phase = "init"
    /\ MongoImplement
    /\ phase' = "serving"
    /\ UNCHANGED <<closes, exit_cause, client_vars, calls, tool_vars>>

\* Mutant: the close is not in a finally, and an exception skips it.
CloseUnlessException(cause) ==
    IF cause = "exception" THEN UNCHANGED <<db, closes>>
    ELSE db' = "closed" /\ closes' = closes + 1

\* finally: db.client.close(), whatever ended the body of the lifespan
Finally(cause) == /\ db' = "closed" /\ closes' = closes + 1

\* Leaving the lifespan.  "normal": the client closed the server's stdin and
\* mcp.run returned.  "exception": an exception unwinds the host, a running
\* tool call's frame included.
LifespanExit(cause) ==
    /\ phase = "serving"
    /\ cause = "normal" => (cpc = "done" /\ tpc = "idle")
    /\ Finally(cause)
    /\ phase' = "stopped" /\ exit_cause' = cause
    /\ ToolReset
    /\ UNCHANGED <<opens, client_vars, calls>>

\* --------------------------------------------- server: query_db_aggregate
Truthy(s) == s # None /\ s # <<>>

\* Mutant: "is not None" instead of truthiness.
BothNotNone(s, e) == s # None /\ e # None

\* if start and end:
BothGiven(s, e) == Truthy(s) /\ Truthy(e)

\* Mutant: a parse failure is swallowed and the call goes on without a filter.
ParseDatesLenient(s, e) ==
    LET a == fromisoformat(s)
        b == fromisoformat(e)
    IN IF a.ok /\ b.ok
       THEN [ok |-> TRUE, stages |-> <<DateMatch(a.dt, b.dt)>>, error |-> <<>>]
       ELSE [ok |-> TRUE, stages |-> <<>>, error |-> <<>>]

\* The try block: both parses, then the append; the first exception ends it.
ParseDates(s, e) ==
    LET a == fromisoformat(s) IN
    IF ~a.ok THEN [ok |-> FALSE, stages |-> <<>>, error |-> a.error]
    ELSE LET b == fromisoformat(e) IN
         IF ~b.ok THEN [ok |-> FALSE, stages |-> <<>>, error |-> b.error]
         ELSE [ok |-> TRUE, stages |-> <<DateMatch(a.dt, b.dt)>>, error |-> <<>>]

InvalidDateFormat ==
    "Invalid date format. Use ISO format (e.g., '2025-04-19T00:00:00'). Error: "

\* Mutant: no except clause, the ValueError leaves the function.
ParseErrorRaised(error) == [kind |-> "raise", docs |-> <<>>, text |-> error]

\* except Exception as e: return f"Invalid date format. ... Error: {str(e)}"
OnParseError(error) ==
    [kind |-> "str", docs |-> <<>>, text |-> <<InvalidDateFormat>> \o error]

\* Mutant: the date stage ends up after the caller's stages.
ExtendInFront(fp, p) == p \o fp

\* final_pipeline.extend(pipeline)
Extend(fp, p) == fp \o p

NoResultsFound == <<"No results found for the aggregation.">>

\* Mutant: return result, empty or not.
ReturnList(docs) == [kind |-> "list", docs |-> docs, text |-> <<>>]

\* return result if result else "No results found for the aggregation."
ReturnValue(docs) ==
    IF docs # <<>> THEN [kind |-> "list", docs |-> docs, text |-> <<>>]
    ELSE [kind |-> "str", docs |-> <<>>, text |-> NoResultsFound]

\* Mutant: the aggregation is wrapped in a handler that reports no results.
AggregateErrorSwallowed(error) ==
    [kind |-> "str", docs |-> <<>>, text |-> NoResultsFound]

\* transactions.aggregate raises: no handler in the function, it leaves it.
OnAggregateError(error) == [kind |-> "raise", docs |-> <<>>, text |-> error]

ServerSelectionTimeout == <<"ServerSelectionTimeoutError: localhost:27017">>

Documents(n) == [i \in 1..n |-> [transaction_id |-> i]]

\* The framework calls the tool function with the request's arguments; requests
\* are served one at a time, in the order they were sent.
ToolEnter(id, p, s, e) ==
    /\ phase = "serving" /\ tpc = "idle"
    /\ id \in DOMAIN calls /\ calls[id] = "sent"
    /\ \A j \in DOMAIN calls : j < id => calls[j] # "sent"
    /\ calls' = [calls EXCEPT ![id] = "running"]
    /\ cur' = id /\ pipeline' = p /\ start' = s /\ end' = e
    /\ final_pipeline' = <<>>
    /\ tpc' = "dates"
    /\ UNCHANGED <<executed, aggregated, ret, client_vars, server_vars>>

\* if start and end: try ... except
ToolDates ==
    /\ tpc = "dates"
    /\ IF BothGiven(start, end)
       THEN LET r == ParseDates(start, end) IN
            IF r.ok
            THEN /\ final_pipeline' = final_pipeline \o r.stages
                 /\ tpc' = "aggregate"
                 /\ ret' = ret
            ELSE /\ ret' = OnParseError(r.error)
                 /\ tpc' = "done"
                 /\ final_pipeline' = final_pipeline
       ELSE /\ tpc' = "aggregate"
            /\ UNCHANGED <<final_pipeline, ret>>
    /\ UNCHANGED <<cur, pipeline, start, end, executed, aggregated, calls,
                   client_vars, server_vars>>

\* extend, then list(transactions.aggregate(final_pipeline)): the database
\* answers with some documents, or is unreachable.
ToolAggregate ==
    /\ tpc = "aggregate"
    /\ final_pipeline' = Extend(final_pipeline, pipeline)
    /\ executed' = Append(executed, final_pipeline')
    /\ \/ \E n \in 0..MaxDocs :
            /\ aggregated' = Documents(n)
            /\ tpc' = "return"
            /\ UNCHANGED ret
       \/ /\ ret' = OnAggregateError(ServerSelectionTimeout)
          /\ tpc' = "done"
          /\ UNCHANGED aggregated
    /\ UNCHANGED <<cur, pipeline, start, end, calls, client_vars, server_vars>>

ToolReturn ==
    /\ tpc = "return"
    /\ ret' = ReturnValue(aggregated)
    /\ tpc' = "done"
    /\ UNCHANGED <<cur, pipeline, start, end, final_pipeline, executed, aggregated,
                   calls, client_vars, server_vars>>

\* The framework answers the request: the value, or the failure.
Respond ==
    /\ tpc = "done"
    /\ calls' = [calls EXCEPT ![cur] = IF ret.kind = "raise" THEN "error" ELSE "ok"]
    /\ ToolReset
    /\ UNCHANGED <<client_vars, server_vars>>

\* ----------------------------------------------------- clients: the session
\* stdio_client(...) starts the server process; ClientSession is opened.
ClientStart ==
    /\ cpc = "start"
    /\ cpc' = "handshake"
    /\ UNCHANGED <<variant, iterations, steps, result, exit_code, calls,
                   server_vars, tool_vars>>

\* session.initialize(), load_mcp_tools(session), the agent is built.
ClientInit ==
    /\ cpc = "handshake"
    /\ phase = "serving"
    /\ cpc' = "loop"
    /\ UNCHANGED <<variant, iterations, steps, result, exit_code, calls,
                   server_vars, tool_vars>>

\* One tool call per requested action, all sent before any answer is awaited.
Issue(k) == [i \in 1..k |-> "sent"]

Answered(id) == id \in DOMAIN calls /\ calls[id] \in {"ok", "error"}

\* ------------------------------ mcp_client.py: AgentExecutor.ainvoke in main
\* Mutant: the ceiling test is off by one.
should_continue_le(n) == n <= max_iterations

\* while self._should_continue(iterations, time_elapsed)
should_continue(n) == n < max_iterations

\* Mutant: the executor runs every action the model names, together.
ManyActions(k) == k

\* The structured-chat agent's output names one action: one tool call.
StructuredActions(k) == 1

\* except Exception as e: ... return {"error": str(e)}
Caught == [kind |-> "error"]

\* The model's answer parses to a final answer.
PlanFinish ==
    /\ variant = "structured" /\ cpc = "loop"
    /\ should_continue(iterations)
    /\ result' = [kind |-> "output"]
    /\ cpc' = "return"
    /\ UNCHANGED <<variant, iterations, steps, exit_code, calls,
                   server_vars, tool_vars>>

\* The model's answer parses to an action on the tool.
PlanAction ==
    /\ variant = "structured" /\ cpc = "loop"
    /\ should_continue(iterations)
    /\ \E k \in 1..MaxParallel : calls' = Issue(StructuredActions(k))
    /\ cpc' = "await"
    /\ UNCHANGED <<variant, iterations, steps, result, exit_code,
                   server_vars, tool_vars>>

\* The answer does not parse (handle_parsing_errors=True) or names no known
\* tool: the step's observation is the error text, and the loop goes on.
PlanInvalid ==
    /\ variant = "structured" /\ cpc = "loop"
    /\ should_continue(iterations)
    /\ iterations' = iterations + 1
    /\ UNCHANGED <<variant, cpc, steps, result, exit_code, calls,
                   server_vars, tool_vars>>

\* The model call raises: caught at the except of main.
PlanRaise ==
    /\ variant = "structured" /\ cpc = "loop"
    /\ should_continue(iterations)
    /\ result' = Caught
    /\ cpc' = "return"
    /\ UNCHANGED <<variant, iterations, steps, exit_code, calls,
                   server_vars, tool_vars>>

\* The loop ends on its ceiling: the stopped response is the output.
PlanStopped ==
    /\ variant = "structured" /\ cpc = "loop"
    /\ ~should_continue(iterations)
    /\ result' = [kind |-> "stopped"]
    /\ cpc' = "return"
    /\ UNCHANGED <<variant, iterations, steps, exit_code, calls,
                   server_vars, tool_vars>>

\* The tool call's answer arrives: an observation, or (a failure answer) a
\* ToolException that leaves the executor and is caught in main.
Observe ==
    /\ variant = "structured" /\ cpc = "await"
    /\ \A id \in DOMAIN calls : Answered(id)
    /\ IF \E id \in DOMAIN calls : calls[id] = "error"
       THEN /\ result' = Caught
            /\ cpc' = "return"
            /\ UNCHANGED iterations
       ELSE /\ iterations' = iterations + 1
            /\ cpc' = "loop"
            /\ UNCHANGED result
    /\ calls' = <<>>
    /\ UNCHANGED <<variant, steps, exit_code, server_vars, tool_vars>>

\* print("FINAL RESPONSE:" ...), return; asyncio.run returns; the last print.
MainReturn ==
    /\ variant = "structured" /\ cpc = "return"
    /\ cpc' = "done" /\ exit_code' = 0
    /\ UNCHANGED <<variant, iterations, steps, result, calls,
                   server_vars, tool_vars>>

\* ------------------------ mcp_client2.py: the react graph's ainvoke in run_agent
\* remaining steps of the graph when a node runs
remaining_steps(n) == recursion_limit - n

\* An exception of the agent run meets no handler in run_agent.
Uncaught == [kind |-> "raised"]

\* The model answers without tool calls: the graph ends.
ReactFinish ==
    /\ variant = "react" /\ cpc = "loop"
    /\ steps' = steps + 1
    /\ result' = [kind |-> "output"]
    /\ cpc' = "return"
    /\ UNCHANGED <<variant, iterations, exit_code, calls,
                   server_vars, tool_vars>>

\* The model asks for k tool calls: the tools node sends them together, unless
\* too few steps remain, and then the graph ends with "need more steps".
ReactToolCalls(k) ==
    /\ variant = "react" /\ cpc = "loop"
    /\ steps' = steps + 1
    /\ IF remaining_steps(steps) < 2
       THEN /\ result' = [kind |-> "stopped"]
            /\ cpc' = "return"
            /\ UNCHANGED calls
       ELSE /\ calls' = Issue(k)
            /\ cpc' = "await"
            /\ UNCHANGED result
    /\ UNCHANGED <<variant, iterations, exit_code, server_vars, tool_vars>>

\* The model call raises.
ReactRaise ==
    /\ variant = "react" /\ cpc = "loop"
    /\ result' = Uncaught
    /\ cpc' = "raise"
    /\ UNCHANGED <<variant, iterations, steps, exit_code, calls,
                   server_vars, tool_vars>>

\* The tools node ends when every call of the turn is answered (a failure
\* answer becomes an error observation); the agent node is next.
ReactObserve ==
    /\ variant = "react" /\ cpc = "await"
    /\ \A id \in DOMAIN calls : Answered(id)
    /\ calls' = <<>>
    /\ steps' = steps + 1
    /\ cpc' = "loop"
    /\ UNCHANGED <<variant, iterations, result, exit_code, server_vars, tool_vars>>

\* return agent_response; asyncio.run returns.
RunAgentReturn ==
    /\ variant = "react" /\ cpc = "return"
    /\ cpc' = "done" /\ exit_code' = 0
    /\ UNCHANGED <<variant, iterations, steps, result, calls,
                   server_vars, tool_vars>>

\* The exception leaves run_agent and asyncio.run: traceback, exit status 1.
RunAgentRaise ==
    /\ variant = "react" /\ cpc = "raise"
    /\ cpc' = "done" /\ exit_code' = 1
    /\ UNCHANGED <<variant, iterations, steps, result, calls,
                   server_vars, tool_vars>>

\* ------------------------------------------------------------ specification
\* The server's steps in a tool call whose arguments come from P, S and S.
ToolWith(P, S) ==
    \/ \E id \in 1..MaxParallel, p \in P, s \in S, e \in S : ToolEnter(id, p, s, e)
    \/ ToolDates
    \/ ToolAggregate
    \/ ToolReturn
    \/ Respond

Tool == ToolWith(Pipelines, OptStrings)

Structured ==
    \/ PlanFinish
    \/ PlanAction
    \/ PlanInvalid
    \/ PlanRaise
    \/ PlanStopped
    \/ Observe
    \/ MainReturn

React ==
    \/ ReactFinish
    \/ \E k \in 1..MaxParallel : ReactToolCalls(k)
    \/ ReactRaise
    \/ ReactObserve
    \/ RunAgentReturn
    \/ RunAgentRaise

\* The steps of the two processes but the tool call's and the host's abnormal end.
Processes ==
    \/ ClientStart
    \/ ClientInit
    \/ Startup
    \/ LifespanExit("normal")
    \/ Structured
    \/ React

Next ==
    \/ Processes
    \/ Tool
    \/ LifespanExit("exception")

Spec == Init /\ [][Next]_vars

\* The agent loops under fairness.  They read a tool call's answer, never its
\* arguments: these are one pipeline and, for start and end, one value for each
\* way through the tool function (no range, a range, a parse error).
LoopPipelines == {<<GroupByCategory>>}

LoopStrings == {None, S_19T, S_slash}

\* Every step but the host's abnormal end.
LoopProgress ==
    \/ Processes
    \/ ToolWith(LoopPipelines, LoopStrings)

LoopNext ==
    \/ LoopProgress
    \/ LifespanExit("exception")

\* Each model call and each tool call returns, and the processes are scheduled.
FairSpec == Init /\ [][LoopNext]_vars /\ WF_vars(LoopProgress)

\* ------------------------------------------------------------------ claims
\* The claims' own vocabulary for a call's arguments.
Missing(x) == x = None \/ x = <<>>

Parses(x) == ~Missing(x) /\ fromisoformat(x).ok

Supplied == ~Missing(start) /\ ~Missing(end)

Apr19 == [year |-> 2025, month |-> 4, day |-> 19, hour |-> 0, minute |-> 0, second |-> 0]

Apr20 == [year |-> 2025, month |-> 4, day |-> 20, hour |-> 0, minute |-> 0, second |-> 0]

\* C1: with start and end both ISO-8601 and start < end, the pipeline given to
\* aggregate is the date $match on [start, end) followed by the caller's stages
\* in their order, and the call runs exactly that one pipeline.
C1_DateMatchThenCallerStages ==
    (tpc \in {"return", "done"} /\ Parses(start) /\ Parses(end)
       /\ DtLess(fromisoformat(start).dt, fromisoformat(end).dt))
    => /\ Len(executed) = 1
       /\ Len(executed[1]) = Len(pipeline) + 1
       /\ executed[1][1] =
            [op |-> "$match", field |-> "date",
             gte |-> fromisoformat(start).dt, lt |-> fromisoformat(end).dt]
       /\ \A i \in 1..Len(pipeline) : executed[1][i + 1] = pipeline[i]

C1_Witness ==
    /\ tpc = "done" /\ start = S_19T /\ end = S_20
    /\ pipeline = <<DateMatch(Apr19, Apr20), GroupByCategory>>
    /\ executed = <<<<DateMatch(Apr19, Apr20), DateMatch(Apr19, Apr20), GroupByCategory>>>>
    /\ ret.kind = "list"

\* C2 as stated: with start or end missing or unparseable, the caller's pipeline
\* is what the finished call executed.
C2_UnmodifiedWheneverNoRange ==
    (tpc = "done" /\ ~(Parses(start) /\ Parses(end))) => executed = <<pipeline>>

\* C2 amended: with start or end missing (None or empty) the finished call executed
\* the caller's pipeline and nothing else; with both supplied and one of them
\* unparseable it executed nothing and returned the date-format error string.
C2_UnmodifiedWhenMissing ==
    /\ (tpc \in {"return", "done"} /\ (Missing(start) \/ Missing(end)))
         => executed = <<pipeline>>
    /\ (tpc = "done" /\ Supplied /\ ~(Parses(start) /\ Parses(end)))
         => (executed = <<>> /\ ret.kind = "str" /\ ret.text[1] = InvalidDateFormat)

C2_Witness ==
    /\ tpc = "done" /\ start = None /\ end = S_slash
    /\ Len(pipeline) = 2 /\ executed = <<pipeline>>

\* C3: with start and end both supplied and one of them not ISO-8601, the call
\* does not raise and goes nowhere but to its return: the string that names the
\* expected format, followed by the text of the first parse error.
C3_ParseErrorIsAString ==
    (tpc \notin {"idle", "dates"} /\ Supplied /\ ~(Parses(start) /\ Parses(end)))
    => /\ tpc = "done"
       /\ ret.kind = "str"
       /\ Head(ret.text) = InvalidDateFormat
       /\ Tail(ret.text) =
            (IF Parses(start) THEN fromisoformat(end).error
             ELSE fromisoformat(start).error)
       /\ Len(ret.text) > 1

C3_Witness ==
    /\ tpc = "done" /\ start = S_19T /\ end = S_month13
    /\ ret = [kind |-> "str", docs |-> <<>>,
              text |-> <<InvalidDateFormat, "month must be in 1..12">>]

\* C4: a returned list is never empty, and an aggregation that gave no documents
\* ends the call with the "no results" string, not with a failure.
C4_NoResultsSentinel ==
    /\ [](ret.kind = "list" => ret.docs # <<>>)
    /\ []((tpc = "done" /\ ret.kind = "list") => ret.docs = aggregated)
    /\ [][(tpc = "return" /\ aggregated = <<>> /\ tpc' # "idle")
            => (tpc' = "done"
                /\ ret' = [kind |-> "str", docs |-> <<>>, text |-> NoResultsFound])]_tpc

C4_Witness ==
    /\ tpc = "done" /\ Len(executed) = 1 /\ aggregated = <<>>
    /\ ret.kind = "str" /\ ret.text = NoResultsFound

\* C5: the MongoDB client is constructed once, before any tool call is served;
\* once the lifespan is left, by a normal end or by an exception, it has been
\* closed exactly once; a tool call runs only while it is open.
C5_OpenOnceClosedOnce ==
    /\ opens <= 1 /\ closes <= 1
    /\ phase = "init" => (opens = 0 /\ closes = 0 /\ db = "none")
    /\ phase = "serving" => (opens = 1 /\ closes = 0 /\ db = "open")
    /\ phase = "stopped" => (opens = 1 /\ closes = 1 /\ db = "closed")
    /\ (tpc # "idle" \/ \E id \in DOMAIN calls : calls[id] \in {"ok", "error"})
         => opens = 1
    /\ tpc # "idle" => db = "open"

C5_Witness ==
    /\ phase = "stopped" /\ exit_cause = "exception"
    /\ closes = 1 /\ db = "closed"
    /\ \E id \in DOMAIN calls : calls[id] = "running"

\* The agent loop stands at its ceiling.
AtCeiling ==
    /\ cpc = "loop"
    /\ \/ variant = "structured" /\ iterations >= max_iterations
       \/ variant = "react" /\ recursion_limit - steps < 2

\* C6: neither loop passes its ceiling; tool calls are issued only below it; at
\* the ceiling the next step of the client ends the run, with the stopped
\* response as the returned result when the model still asked for a tool; and
\* every run ends, unless the server process has died under it.
C6_LoopBounded ==
    /\ [](iterations <= max_iterations /\ steps <= recursion_limit)
    /\ [](calls # <<>> => (iterations < max_iterations /\ steps < recursion_limit))
    /\ [][AtCeiling =>
            /\ calls' = <<>>
            /\ \/ cpc' = "return" /\ result'.kind = "stopped"
               \/ variant = "react" /\ cpc' = "return" /\ result'.kind = "output"
               \/ variant = "react" /\ cpc' = "raise"]_<<cpc, iterations, steps, result>>
    /\ [](cpc = "done" => result.kind # "none")
    /\ <>(cpc = "done" \/ phase = "stopped")

C6_Witness ==
    /\ variant = "structured" /\ cpc = "done" /\ exit_code = 0
    /\ iterations = max_iterations /\ result.kind = "stopped"

\* C7 as stated: no failure of the agent run leaves the client's top-level call
\* as an exception, and the client process ends normally.
C7_FailureCaughtAndReturned ==
    /\ result.kind # "raised"
    /\ cpc = "done" => exit_code = 0

\* C8: a connectivity error of the aggregation leaves the call as a failure, with
\* its own text; the failure is what the request is answered with; the server
\* and its database handle stay as they were.
C8_ConnectivityErrorPropagates ==
    /\ [][(tpc = "aggregate" /\ tpc' = "done")
            => (/\ ret'.kind = "raise" /\ ret'.text = ServerSelectionTimeout
                /\ phase' = "serving" /\ db' = "open")]_vars
    /\ [][(tpc = "done" /\ ret.kind = "raise" /\ tpc' = "idle" /\ phase' = "serving")
            => (calls'[cur] = "error" /\ db' = "open")]_vars
    /\ []((phase = "serving" /\ \E id \in DOMAIN calls : calls[id] = "error")
            => db = "open")

\* A later call is served to the end after an earlier one failed.
C8_Witness ==
    /\ DOMAIN calls = 1..2 /\ calls[1] = "error"
    /\ cur = 2 /\ tpc = "done" /\ ret.kind = "list"
    /\ phase = "serving" /\ db = "open"

\* Tool calls sent and not yet observed by the agent.
InFlight == DOMAIN calls

\* C9 as stated: never two tool calls in flight, in either client.
C9_NeverTwoInFlight == Cardinality(InFlight) <= 1

\* C9 amended: the structured-chat client never has two calls in flight; in the
\* react client only the calls of one model response are in flight together,
\* and a model turn starts only when every earlier call has been observed.
C9_OneTurnInFlight ==
    /\ variant = "structured" => Cardinality(InFlight) <= 1
    /\ InFlight # {} => cpc = "await"
    /\ cpc # "await" => calls = <<>>

C9_Witness ==
    /\ variant = "react" /\ steps > 1
    /\ calls = <<"running", "sent">> /\ tpc = "aggregate"

\* C10: a call runs at most one aggregation; one that ends with the date-format
\* string ran none and built no stage; and an aggregation runs only after both
\* parses are done: with both bounds supplied, both parsed.
C10_ParseBeforeDatabase ==
    /\ Len(executed) <= 1
    /\ (ret.kind = "str" /\ Head(ret.text) = InvalidDateFormat)
         => (executed = <<>> /\ final_pipeline = <<>> /\ aggregated = <<>>)
    /\ (executed # <<>> /\ Supplied) => (Parses(start) /\ Parses(end))
    /\ (tpc = "aggregate" /\ Supplied)
         => (Parses(start) /\ Parses(end) /\ Len(final_pipeline) = 1)

C10_Witness ==
    /\ tpc = "done" /\ start = S_20 /\ end = S_slash /\ pipeline # <<>>
    /\ executed = <<>> /\ final_pipeline = <<>>
    /\ ret.kind = "str" /\ Head(ret.text) = InvalidDateFormat

====
